---- MODULE Spec2Model ----
(***************************************************************************)
(* Model of the hourly e-commerce e-mail report job                        *)
(*   01_ecommerce_hourly_email_report/src/run_hourly_report.py             *)
(*   01_ecommerce_hourly_email_report/src/prepare_processed.py             *)
(*                                                                         *)
(* Time.  In the report job a pd.Timestamp on an hour boundary is the      *)
(* number of hours since an epoch; in the normalizer a timestamp is the    *)
(* pair [h, m] of that hour and the minute in it.  Optional and missing    *)
(* values are tagged records so that None, NaT and a raised exception stay *)
(* distinct from every hour.                                               *)
(* Text.  A str is a sequence of one-character strings, so that strip()    *)
(* and lower() are computed and not assumed.                               *)
(* Floats.  A quotient is kept as the pair [num, den] of the division the  *)
(* code performs; 0.0 is [num |-> 0, den |-> 1].                           *)
(***************************************************************************)
EXTENDS Integers, Sequences, FiniteSets, TLC

VARIABLES
    eventsExist,  \* EVENTS_PATH.exists()
    df,           \* content of data/processed/events.parquet
    stateFile,    \* content of state.json
    pc,           \* position of the running main(), "idle" between runs
    hour,         \* main's local `hour`
    metrics,      \* main's local `metrics`
    failure,      \* the exception that ended the last run, "" if none
    before,       \* state.json as it was when the current run started
    sent,         \* history: the metrics records send_email delivered
    committed,    \* history: the hours of the runs that reached the end
    cursor0,      \* history: what read_state_last_hour gave at deployment
    observed,     \* what the concurrent reader's last load returned
    raw,          \* the raw CSV batch given to prepare_events
    normPc,       \* position of prepare_processed.main()
    normOut       \* what prepare_events returned

vars == <<eventsExist, df, stateFile, pc, hour, metrics, failure, before,
          sent, committed, cursor0, observed, raw, normPc, normOut>>

runVars  == <<eventsExist, df, stateFile, pc, hour, metrics, failure, before,
              sent, committed, cursor0, observed>>
normVars == <<raw, normPc, normOut>>

----------------------------------------------------------------------------
(* Bounds of the model *)

\* longest events.parquet the orchestrator runs are started on
MaxRunEvents == 2
\* longest events.parquet the aggregator is applied to
MaxEvents == 2
\* the job is no longer started once the cursor has reached this hour
MaxCursor == 24
\* longest raw batch given to the normalizer
MaxRaw == 2

\* the hours that events of the dataset fall in (they cross midnight)
DataHours == 22 .. 24
\* the cursors state.json may hold when the model starts
InitCursors == 22 .. 23

----------------------------------------------------------------------------
(* Values *)

Ts(h)   == [tag |-> "ts",   h |-> h]
None    == [tag |-> "None", h |-> 0]
NaT     == [tag |-> "NaT",  h |-> 0]
Raised(e) == [tag |-> e, h |-> 0]
IsTs(v) == v.tag = "ts"

PURCHASE     == <<"p","u","r","c","h","a","s","e">>
ADD_TO_CART  == <<"a","d","d","_","t","o","_","c","a","r","t">>
PRODUCT_VIEW == <<"p","r","o","d","u","c","t","_","v","i","e","w">>

\* a column of the frame: df["name"]
Col(s, name) == [i \in DOMAIN s |-> s[i][name]]

\* Series.sum() of a numeric column
RECURSIVE Sum(_)
Sum(col) == IF col = <<>> THEN 0 ELSE Head(col) + Sum(Tail(col))

\* Series.sum() of a boolean column, and of a comparison (col == value)
RECURSIVE CountTrue(_)
CountTrue(col) ==
    IF col = <<>> THEN 0
    ELSE (IF Head(col) THEN 1 ELSE 0) + CountTrue(Tail(col))

Eq(col, value) == [i \in DOMAIN col |-> col[i] = value]

\* Series.nunique()
NUnique(col) == Cardinality({col[i] : i \in DOMAIN col})

\* Series.min() of the event_hour column: NaT on an empty column
RECURSIVE SeriesMin(_)
SeriesMin(s) ==
    IF s = <<>> THEN NaT
    ELSE LET rest == SeriesMin(Tail(s))
         IN IF IsTs(rest) /\ rest.h < Head(s).event_hour
            THEN rest ELSE Ts(Head(s).event_hour)

----------------------------------------------------------------------------
(* Cursor Store: state.json *)

Absent    == [kind |-> "absent", null |-> FALSE, text |-> <<>>]
Truncated == [kind |-> "file",   null |-> FALSE, text |-> <<>>]
NullState == [kind |-> "file",   null |-> TRUE,  text |-> <<>>]

\* faulty variant of isoformat: the hour written on a 12-hour clock
isoformat_12h(h) == <<h \div 24, (h % 12) \div 10, (h % 12) % 10>>

\* Timestamp.isoformat(): the date, then the two digits of the hour of day
isoformat(h) == <<h \div 24, (h % 24) \div 10, (h % 24) % 10>>

\* pd.to_datetime of an ISO string
to_datetime(text) == Ts(text[1] * 24 + text[2] * 10 + text[3])

\* the file write_state_last_hour leaves once json.dump has been flushed
Payload(h) == [kind |-> "file", null |-> FALSE, text |-> isoformat(h)]

read_state_last_hour(file) ==
    IF file.kind = "absent" THEN None
    ELSE IF ~file.null /\ file.text = <<>> THEN Raised("JSONDecodeError")
    ELSE IF file.null THEN None
    ELSE to_datetime(file.text)

\* faulty variant of write_state_last_hour: the hour after the processed one
\* is stored
write_state_next_hour(file, h) == Payload(h + 1)

\* write_state_last_hour is two effects on state.json: open(STATE_PATH, "w")
\* truncates the file at once; the payload reaches it when the buffered
\* json.dump output is flushed as the with-block closes the file
write_state_open(file) == Truncated
write_state_last_hour(file, h) == Payload(h)

----------------------------------------------------------------------------
(* Hour Selector *)

\* faulty variant of pick_hour_to_process: an hour the dataset lacks is not
\* selected, the earliest hour of the dataset is taken in its place
pick_hour_in_data(frame, file) ==
    LET min_hour == SeriesMin(frame)
        last     == read_state_last_hour(file)
    IN IF last.tag = "JSONDecodeError" THEN last
       ELSE IF last = None THEN min_hour
       ELSE IF \E i \in DOMAIN frame : frame[i].event_hour = last.h + 1
            THEN Ts(last.h + 1) ELSE min_hour

\* faulty variant of pick_hour_to_process: the selector skips to the next
\* hour that has events
pick_next_available_hour(frame, file) ==
    LET min_hour == SeriesMin(frame)
        last     == read_state_last_hour(file)
        later    == {frame[i].event_hour : i \in DOMAIN frame} \ (0 .. last.h)
    IN IF last.tag = "JSONDecodeError" THEN last
       ELSE IF last = None THEN min_hour
       ELSE IF later = {} THEN Ts(last.h + 1)
       ELSE Ts(CHOOSE m \in later : \A x \in later : m <= x)

pick_hour_to_process(frame, file) ==
    LET min_hour == SeriesMin(frame)
        last     == read_state_last_hour(file)
    IN IF last.tag = "JSONDecodeError" THEN last
       ELSE IF last = None THEN min_hour
       ELSE Ts(last.h + 1)

----------------------------------------------------------------------------
(* Metrics Aggregator *)

Zero == [num |-> 0, den |-> 1]
\* a / b as the code divides, guarded by `if b > 0 else 0.0`
Ratio(a, b) == IF b > 0 THEN [num |-> a, den |-> b] ELSE Zero

\* faulty variant of RowsOfHour: a range (event_hour >= hour), not equality
RECURSIVE RowsFromHour(_, _)
RowsFromHour(frame, h) ==
    IF frame = <<>> THEN <<>>
    ELSE IF IsTs(h) /\ Head(frame).event_hour >= h.h
         THEN <<Head(frame)>> \o RowsFromHour(Tail(frame), h)
         ELSE RowsFromHour(Tail(frame), h)

\* df[df["event_hour"] == hour]; NaT equals no hour
RECURSIVE RowsOfHour(_, _)
RowsOfHour(frame, h) ==
    IF frame = <<>> THEN <<>>
    ELSE IF IsTs(h) /\ Head(frame).event_hour = h.h
         THEN <<Head(frame)>> \o RowsOfHour(Tail(frame), h)
         ELSE RowsOfHour(Tail(frame), h)

compute_metrics(frame, h) ==
    LET df_h         == RowsOfHour(frame, h)
        events_total == Len(df_h)
        unique_users == IF events_total > 0 THEN NUnique(Col(df_h, "UserID")) ELSE 0
        unique_sessions ==
            IF events_total > 0 THEN NUnique(Col(df_h, "SessionID")) ELSE 0
        purchases    == IF events_total > 0 THEN CountTrue(Col(df_h, "is_purchase")) ELSE 0
        revenue      == IF events_total > 0 THEN Sum(Col(df_h, "revenue")) ELSE 0
        add_to_cart  ==
            IF events_total > 0
            THEN CountTrue(Eq(Col(df_h, "EventType"), ADD_TO_CART)) ELSE 0
        product_view ==
            IF events_total > 0
            THEN CountTrue(Eq(Col(df_h, "EventType"), PRODUCT_VIEW)) ELSE 0
    IN [hour                  |-> h,
        events_total          |-> events_total,
        unique_users          |-> unique_users,
        unique_sessions       |-> unique_sessions,
        purchases             |-> purchases,
        revenue               |-> revenue,
        aov                   |-> Ratio(revenue, purchases),
        add_to_cart           |-> add_to_cart,
        product_view          |-> product_view,
        conv_cart_to_purchase |-> Ratio(purchases, add_to_cart),
        conv_view_to_purchase |-> Ratio(purchases, product_view)]

\* main's `metrics` before compute_metrics has run
NoMetrics == compute_metrics(<<>>, None)

\* faulty variant of build_email: NaT is formatted without an error
build_email_formats_NaT(m) == TRUE

\* build_email formats metrics["hour"] with strftime, which NaT does not
\* support: TRUE when a subject and a body come back, FALSE when it raises
build_email(m) == IsTs(m.hour)

----------------------------------------------------------------------------
(* The datasets the job is run on.  A row of events.parquet satisfies what *)
(* the normalizer establishes: is_purchase is (EventType == "purchase"),   *)
(* and revenue is 0 unless the row is a purchase.                          *)

Row(u, s, h, type, rev) ==
    [UserID |-> u, SessionID |-> s, event_hour |-> h, EventType |-> type,
     is_purchase |-> (type = PURCHASE), revenue |-> rev]

\* event type and revenue of a row: a purchase of 50, a purchase whose
\* amount was unparseable, an add_to_cart, a product_view
Kinds == {<<PURCHASE, 50>>, <<PURCHASE, 0>>, <<ADD_TO_CART, 0>>, <<PRODUCT_VIEW, 0>>}

Rows(users, sessions, hours) ==
    {Row(u, s, h, k[1], k[2]) : u \in users, s \in sessions, h \in hours, k \in Kinds}

SeqUpTo(S, n) == UNION {[1 .. k -> S] : k \in 0 .. n}

RunFrames == SeqUpTo(Rows({1}, {1}, DataHours), MaxRunEvents)

\* 3 purchases totalling 150, 10 add_to_cart and 5 product_view in hour 22
AovExample ==
    [i \in 1 .. 18 |->
        IF i <= 3 THEN Row(i, i, 22, PURCHASE, 50)
        ELSE IF i <= 13 THEN Row(i, 1, 22, ADD_TO_CART, 0)
        ELSE Row(1, i, 22, PRODUCT_VIEW, 0)]

MetricFrames == SeqUpTo(Rows(1 .. 2, 1 .. 2, 22 .. 23), MaxEvents) \cup {AovExample}

InitFiles == {Absent, NullState} \cup {Payload(h) : h \in InitCursors}

----------------------------------------------------------------------------
(* Orchestrator: main() of run_hourly_report.py, one action per step *)

Fail(e) == /\ pc' = "failed"
           /\ failure' = e

\* the scheduler starts the job; the model stops starting it at MaxCursor
Start ==
    /\ pc \in {"idle", "done", "failed"}
    /\ LET c == read_state_last_hour(stateFile) IN ~(IsTs(c) /\ c.h >= MaxCursor)
    /\ pc' = "selecting"
    /\ before' = stateFile
    /\ hour' = None
    /\ metrics' = NoMetrics
    /\ failure' = ""
    /\ UNCHANGED <<eventsExist, df, stateFile, sent, committed, cursor0, observed>>

\* lines 134-139: the existence check, read_parquet, pick_hour_to_process
Select ==
    /\ pc = "selecting"
    /\ LET h == pick_hour_to_process(df, stateFile)
       IN IF ~eventsExist
          THEN Fail("FileNotFoundError") /\ hour' = hour
          ELSE IF h.tag = "JSONDecodeError"
          THEN Fail("JSONDecodeError") /\ hour' = hour
          ELSE pc' = "aggregating" /\ hour' = h /\ failure' = failure
    /\ UNCHANGED <<eventsExist, df, stateFile, metrics, before, sent, committed,
                   cursor0, observed>>

\* lines 140-141: compute_metrics, build_email
Aggregate ==
    /\ pc = "aggregating"
    /\ metrics' = compute_metrics(df, hour)
    /\ IF build_email(metrics')
       THEN pc' = "dispatching" /\ failure' = failure
       ELSE Fail("ValueError")
    /\ UNCHANGED <<eventsExist, df, stateFile, hour, before, sent, committed,
                   cursor0, observed>>

\* line 143: send_email returns
SendOk ==
    /\ pc = "dispatching"
    /\ sent' = sent \cup {metrics}
    /\ pc' = "committing"
    /\ UNCHANGED <<eventsExist, df, stateFile, hour, metrics, failure, before,
                   committed, cursor0, observed>>

\* faulty variant of SendFail: the exception of send_email is swallowed and
\* main goes on to the commit
SendFailSwallowed ==
    /\ pc = "dispatching"
    /\ pc' = "committing"
    /\ UNCHANGED <<eventsExist, df, stateFile, hour, metrics, failure, before,
                   sent, committed, cursor0, observed>>

\* line 143: send_email raises (credentials missing, SMTP failure); the
\* exception leaves main
SendFail ==
    /\ pc = "dispatching"
    /\ Fail("DispatchError")
    /\ UNCHANGED <<eventsExist, df, stateFile, hour, metrics, before, sent,
                   committed, cursor0, observed>>

\* line 144 -> line 38: open(STATE_PATH, "w")
CommitOpen ==
    /\ pc = "committing"
    /\ stateFile' = write_state_open(stateFile)
    /\ pc' = "writing"
    /\ UNCHANGED <<eventsExist, df, hour, metrics, failure, before, sent,
                   committed, cursor0, observed>>

\* line 38: open raises (no permission): state.json is untouched
CommitOpenFail ==
    /\ pc = "committing"
    /\ Fail("OSError")
    /\ UNCHANGED <<eventsExist, df, stateFile, hour, metrics, before, sent,
                   committed, cursor0, observed>>

\* line 39 and the end of the with-block: the payload is written; line 146
CommitFlush ==
    /\ pc = "writing"
    /\ stateFile' = write_state_last_hour(stateFile, hour.h)
    /\ pc' = "done"
    /\ committed' = Append(committed, hour.h)
    /\ UNCHANGED <<eventsExist, df, hour, metrics, failure, before, sent,
                   cursor0, observed>>

\* the process is killed in the middle of a run
Crash ==
    /\ pc \in {"selecting", "aggregating", "dispatching", "committing", "writing"}
    /\ Fail("killed")
    /\ UNCHANGED <<eventsExist, df, stateFile, hour, metrics, before, sent,
                   committed, cursor0, observed>>

\* another process reads the cursor while the job may be running
Load ==
    /\ observed' = read_state_last_hour(stateFile)
    /\ observed' # observed
    /\ UNCHANGED <<eventsExist, df, stateFile, pc, hour, metrics, failure, before,
                   sent, committed, cursor0>>

NormIdle ==
    /\ raw = <<>>
    /\ normPc = "unused"
    /\ normOut = <<>>

Init ==
    /\ eventsExist \in BOOLEAN
    /\ df \in (IF eventsExist THEN RunFrames ELSE {<<>>})
    /\ stateFile \in InitFiles
    /\ pc = "idle"
    /\ hour = None
    /\ metrics = NoMetrics
    /\ failure = ""
    /\ before = stateFile
    /\ sent = {}
    /\ committed = <<>>
    /\ cursor0 = read_state_last_hour(stateFile)
    /\ observed = cursor0
    /\ NormIdle

Next ==
    \/ (Start /\ UNCHANGED normVars)
    \/ (Select /\ UNCHANGED normVars)
    \/ (Aggregate /\ UNCHANGED normVars)
    \/ (SendOk /\ UNCHANGED normVars)
    \/ (SendFail /\ UNCHANGED normVars)
    \/ (CommitOpen /\ UNCHANGED normVars)
    \/ (CommitOpenFail /\ UNCHANGED normVars)
    \/ (CommitFlush /\ UNCHANGED normVars)
    \/ (Crash /\ UNCHANGED normVars)
    \/ (Load /\ UNCHANGED normVars)

Spec == Init /\ [][Next]_vars

\* the aggregator alone, applied to every frame and hour of the bounded sets
InitMetrics ==
    /\ eventsExist = TRUE
    /\ df \in MetricFrames
    /\ stateFile = Absent
    /\ pc = "aggregating"
    /\ hour \in {Ts(h) : h \in DataHours} \cup {NaT}
    /\ metrics = NoMetrics
    /\ failure = ""
    /\ before = stateFile
    /\ sent = {}
    /\ committed = <<>>
    /\ cursor0 = None
    /\ observed = None
    /\ NormIdle

NextMetrics == Aggregate /\ UNCHANGED normVars

SpecMetrics == InitMetrics /\ [][NextMetrics]_vars

----------------------------------------------------------------------------
(* Event Normalizer: prepare_processed.py.  A raw cell is what read_csv    *)
(* gives: a Timestamp cell is text that parses to hour h, minute m, or     *)
(* does not parse; a numeric cell holds a number or something else.  The   *)
(* columns ProductID and Outcome are carried through by prepare_events     *)
(* without touching the other columns, and are left out.                   *)

Num(v) == [isnum |-> TRUE,  v |-> v]
Junk   == [isnum |-> FALSE, v |-> 0]
Stamp(h, m) == [parses |-> TRUE,  h |-> h, m |-> m]
BadStamp   == [parses |-> FALSE, h |-> 0, m |-> 0]

\* str.strip(): leading and trailing blanks removed
RECURSIVE LStrip(_)
LStrip(str) == IF str # <<>> /\ Head(str) = " " THEN LStrip(Tail(str)) ELSE str
RECURSIVE RStrip(_)
RStrip(str) ==
    IF str # <<>> /\ str[Len(str)] = " " THEN RStrip(SubSeq(str, 1, Len(str) - 1))
    ELSE str
strip(str) == RStrip(LStrip(str))

\* str.lower(), over the letters the raw event types are written with
LowerOf(c) ==
    CASE c = "P" -> "p" [] c = "U" -> "u" [] c = "R" -> "r" [] c = "C" -> "c"
      [] c = "H" -> "h" [] c = "A" -> "a" [] c = "S" -> "s" [] c = "E" -> "e"
      [] OTHER -> c
lower(str) == [i \in DOMAIN str |-> LowerOf(str[i])]

\* the frequency aliases pandas' to_offset resolves for a floor: days, hours,
\* minutes and the units below a minute
FixedFreqs == {"D", "h", "H", "min", "T", "s", "S", "ms", "L", "us", "U", "ns", "N"}

\* Timestamp.floor(freq) of an aligned frequency; the model's resolution is
\* the minute, so a unit below it leaves the timestamp as it is
floor(ts, freq) ==
    IF freq \in {"h", "H"} THEN [h |-> ts.h, m |-> 0]
    ELSE IF freq = "D" THEN [h |-> (ts.h \div 24) * 24, m |-> 0]
    ELSE ts

\* line 51: the alias handed to Series.dt.floor
FloorFreq == "f"

\* lines 46-63 and 67-86 for one row that is kept; i is its index label
NormalizeRow(r, i) ==
    LET Timestamp   == [h |-> r.Timestamp.h, m |-> r.Timestamp.m]
        EventType   == lower(strip(r.EventType))
        is_purchase == (EventType = PURCHASE)
        Amount      == r.Amount
        revenue     == IF is_purchase /\ Amount.isnum THEN Amount.v ELSE 0
    IN [index       |-> i,
        UserID      |-> r.UserID.v,
        SessionID   |-> r.SessionID.v,
        Timestamp   |-> Timestamp,
        event_hour  |-> floor(Timestamp, FloorFreq),
        EventType   |-> EventType,
        is_purchase |-> is_purchase,
        revenue     |-> revenue]

\* the rows that lines 47 and 81 keep: Timestamp parsed, both ids numeric
Kept(r) == r.Timestamp.parses /\ r.UserID.isnum /\ r.SessionID.isnum

RECURSIVE NormalizeFrom(_, _)
NormalizeFrom(batch, i) ==
    IF i > Len(batch) THEN <<>>
    ELSE IF Kept(batch[i])
         THEN <<NormalizeRow(batch[i], i)>> \o NormalizeFrom(batch, i + 1)
         ELSE NormalizeFrom(batch, i + 1)

\* Series.dt.floor resolves the alias with to_offset before it looks at the
\* data, and to_offset raises ValueError("Invalid frequency") on an alias it
\* does not know: prepare_events then ends at line 51 for every batch
prepare_events(batch) ==
    IF FloorFreq \notin FixedFreqs
    THEN [ok |-> FALSE, error |-> "ValueError", events |-> <<>>]
    ELSE [ok |-> TRUE,  error |-> "",           events |-> NormalizeFrom(batch, 1)]

\* the raw values of the bounded batches
RawEventTypes ==
    {PURCHASE,
     <<" ", "P", "u", "r", "c", "h", "a", "s", "e", " ">>,
     <<"P", "U", "R", "C", "H", "A", "S", "E">>,
     <<"p", "u", "r", "c", "h", "a", "s", "e", "s">>,
     ADD_TO_CART}

RawRows ==
    [UserID : {Num(1), Junk}, SessionID : {Num(1)},
     Timestamp : {Stamp(22, 0), Stamp(22, 37), Stamp(23, 5), BadStamp},
     EventType : RawEventTypes,
     Amount : {Num(50), Num(-5), Junk}]

RawBatches == SeqUpTo(RawRows, MaxRaw)

\* prepare_processed.main(): load_raw, prepare_events, then save_processed
\* (the frame becomes events.parquet) and print_summary if prepare_events
\* returned
Prepare ==
    /\ normPc = "start"
    /\ normOut' = prepare_events(raw)
    /\ IF normOut'.ok
       THEN /\ normPc' = "saved"
            /\ eventsExist' = TRUE
            /\ df' = normOut'.events
       ELSE /\ normPc' = "failed"
            /\ UNCHANGED <<eventsExist, df>>
    /\ UNCHANGED <<raw, stateFile, pc, hour, metrics, failure, before, sent,
                   committed, cursor0, observed>>

InitNorm ==
    /\ raw \in RawBatches
    /\ normPc = "start"
    /\ normOut = [ok |-> TRUE, error |-> "", events |-> <<>>]
    /\ eventsExist = FALSE
    /\ df = <<>>
    /\ stateFile = Absent
    /\ pc = "idle"
    /\ hour = None
    /\ metrics = NoMetrics
    /\ failure = ""
    /\ before = stateFile
    /\ sent = {}
    /\ committed = <<>>
    /\ cursor0 = None
    /\ observed = None

NextNorm == Prepare

SpecNorm == InitNorm /\ [][NextNorm]_vars

----------------------------------------------------------------------------
(* What the claims speak of *)

\* the persisted cursor, as load() returns it
Cursor == read_state_last_hour(stateFile)
CursorBefore == read_state_last_hour(before)

\* available_hours of the dataset
HoursOf(frame) == {frame[i].event_hour : i \in DOMAIN frame}
MinOf(S) == CHOOSE m \in S : \A x \in S : m <= x

\* main has selected an hour in the current run
Selected == pc \in {"aggregating", "dispatching", "committing", "writing", "done"}

AllZero(m) ==
    /\ m.events_total = 0 /\ m.unique_users = 0 /\ m.unique_sessions = 0
    /\ m.purchases = 0 /\ m.revenue = 0 /\ m.add_to_cart = 0 /\ m.product_view = 0
    /\ m.aov = Zero /\ m.conv_cart_to_purchase = Zero /\ m.conv_view_to_purchase = Zero

\* the report of hour h has been delivered
Dispatched(h) == \E m \in sent : m.hour = h

----------------------------------------------------------------------------
\* C1: if send_email fails, the cursor after the run equals the cursor before
\* it (state.json is untouched); if send_email and write_state_last_hour both
\* succeed, the cursor after the run is the hour selected in that run.
C1_Gating ==
    /\ (pc = "failed" /\ failure = "DispatchError") =>
            (stateFile = before /\ Cursor = CursorBefore)
    /\ pc = "done" => (IsTs(hour) /\ Cursor = hour)

\* a run that failed at dispatch, after an earlier run had committed
C1_Witness ==
    /\ pc = "failed" /\ failure = "DispatchError"
    /\ Len(committed) > 0
    /\ Cursor = Ts(committed[Len(committed)])

\* a step that changes state.json is a step of main's commit, taken after the
\* report of the selected hour was delivered, and it writes that hour
C2_ChangeAfterDispatch ==
    stateFile' # stateFile =>
        /\ pc \in {"committing", "writing"}
        /\ Dispatched(hour)
        /\ IsTs(read_state_last_hour(stateFile')) =>
                read_state_last_hour(stateFile') = hour
\* a cursor other than the one found at deployment is an hour whose report
\* has been delivered
C2_CursorWasDispatched ==
    IsTs(Cursor) => (Cursor = cursor0 \/ Dispatched(Cursor))

\* C2: across runs in which any step may fail or the process be killed,
\* state.json changes only in the commit step of main, after the report of the
\* selected hour was delivered, and only to that hour; so in every reachable
\* state a cursor h written by the job implies that the report of h was
\* dispatched before.
C2_DispatchBeforeCommit ==
    [](C2_CursorWasDispatched) /\ [][C2_ChangeAfterDispatch]_vars

\* the cursor has been advanced twice, past a run that sent without committing
C2_Witness ==
    /\ Len(committed) >= 2
    /\ Cursor = Ts(committed[Len(committed)])
    /\ Cursor # cursor0
    /\ Cardinality(sent) >= 2

\* C3: with no cursor and a non-empty dataset the selected hour is the least
\* event_hour; with a cursor c it is c + 1 hour, whatever the dataset holds.
C3_SelectorTotality ==
    Selected =>
        /\ (CursorBefore = None /\ df # <<>>) => hour = Ts(MinOf(HoursOf(df)))
        /\ IsTs(CursorBefore) => hour = Ts(CursorBefore.h + 1)

\* a first run took the minimum, a later one an hour the dataset lacks
C3_Witness ==
    /\ Selected
    /\ cursor0 = None
    /\ Len(committed) >= 1
    /\ committed[1] = MinOf(HoursOf(df))
    /\ IsTs(hour) /\ hour.h \notin HoursOf(df)

\* with a cursor and an empty dataset the next hour is still selected
C3_WitnessEmpty == Selected /\ IsTs(CursorBefore) /\ df = <<>> /\ eventsExist

\* a run on an existing, empty dataset that found no cursor
EmptyFirstRun == eventsExist /\ df = <<>> /\ CursorBefore = None /\ pc # "idle"

\* C4 as stated: with no cursor and no available hours the Hour Selector
\* fails with NoDataError, the run is FAILED, no hour is selected, no report
\* is dispatched and the cursor stays None.
C4_Original ==
    (EmptyFirstRun /\ pc # "selecting" /\ failure # "killed") =>
        /\ pc = "failed" /\ failure = "NoDataError"
        /\ hour = None
        /\ sent = {}
        /\ Cursor = None

\* C4 (amended): with no cursor and no available hours the Hour Selector
\* raises nothing and returns NaT; the run then fails with ValueError when
\* build_email formats that hour, before any dispatch: no report is
\* dispatched and the cursor stays None.
C4_EmptyRunFails ==
    EmptyFirstRun =>
        /\ pc \in {"selecting", "aggregating", "failed"}
        /\ pc = "aggregating" => hour = NaT
        /\ pc = "failed" => (failure \in {"ValueError", "killed"} /\ hour \in {None, NaT})
        /\ (pc = "failed" /\ failure = "ValueError") => (hour = NaT /\ AllZero(metrics))
        /\ sent = {}
        /\ Cursor = None

\* the run on the empty dataset has ended in build_email
C4_Witness ==
    EmptyFirstRun /\ pc = "failed" /\ failure = "ValueError" /\ hour = NaT

\* C5: from a cursor H0 the k-th run that reaches the end processes
\* H0 + k hours (without a cursor, each one processes the hour after the one
\* before it); a report sent for an hour without events is all-zero, so an
\* hour missing from the dataset is neither an error nor skipped.
C5_GapTolerance ==
    /\ \A k \in 1 .. Len(committed) :
            /\ IsTs(cursor0) => committed[k] = cursor0.h + k
            /\ k > 1 => committed[k] = committed[k - 1] + 1
            /\ Dispatched(Ts(committed[k]))
    /\ \A m \in sent : m.hour.h \notin HoursOf(df) => AllZero(m)

\* events at H0 = 22 and H2 = 24 only, cursor at H0: the next two runs have
\* processed 23, with an all-zero report, and then 24
C5_Witness ==
    /\ HoursOf(df) = {22, 24}
    /\ cursor0 = Ts(22)
    /\ committed = <<23, 24>>
    /\ \E m \in sent : m.hour = Ts(23) /\ AllZero(m)
    /\ \E m \in sent : m.hour = Ts(24) /\ m.events_total = 1

RECURSIVE SumOver(_, _)
\* the sum of f[i] over the finite set S
SumOver(f, S) ==
    IF S = {} THEN 0
    ELSE LET i == CHOOSE x \in S : TRUE IN f[i] + SumOver(f, S \ {i})

\* the events of the frame whose event_hour is exactly the hour asked for
Matching == {i \in DOMAIN df : IsTs(hour) /\ df[i].event_hour = hour.h}
MatchingOf(type) == {i \in Matching : df[i].EventType = type}
\* the quotient q equals n / d
Equals(q, n, d) == q.num * d = n * q.den

\* C6: the record counts only the events whose event_hour equals the hour:
\* the counts per kind, the distinct ids, the revenue sum, and the three
\* quotients, each 0 when its divisor is 0; no matching event gives an
\* all-zero record; 3 purchases totalling 150 with 10 add_to_cart and 5
\* product_view give aov 50, 0.3 and 0.6.
C6_Aggregate ==
    (pc = "dispatching" \/ (pc = "failed" /\ failure = "ValueError")) =>
        /\ metrics.events_total = Cardinality(Matching)
        /\ metrics.purchases = Cardinality(MatchingOf(PURCHASE))
        /\ metrics.add_to_cart = Cardinality(MatchingOf(ADD_TO_CART))
        /\ metrics.product_view = Cardinality(MatchingOf(PRODUCT_VIEW))
        /\ metrics.unique_users = Cardinality({df[i].UserID : i \in Matching})
        /\ metrics.unique_sessions = Cardinality({df[i].SessionID : i \in Matching})
        /\ metrics.revenue = SumOver([i \in DOMAIN df |-> df[i].revenue], Matching)
        /\ IF metrics.purchases = 0 THEN metrics.aov = Zero
           ELSE Equals(metrics.aov, metrics.revenue, metrics.purchases)
        /\ IF metrics.add_to_cart = 0 THEN metrics.conv_cart_to_purchase = Zero
           ELSE Equals(metrics.conv_cart_to_purchase, metrics.purchases, metrics.add_to_cart)
        /\ IF metrics.product_view = 0 THEN metrics.conv_view_to_purchase = Zero
           ELSE Equals(metrics.conv_view_to_purchase, metrics.purchases, metrics.product_view)
        /\ Matching = {} => AllZero(metrics)
        /\ (df = AovExample /\ hour = Ts(22)) =>
                /\ metrics.purchases = 3 /\ metrics.revenue = 150
                /\ metrics.add_to_cart = 10 /\ metrics.product_view = 5
                /\ Equals(metrics.aov, 50, 1)
                /\ Equals(metrics.conv_cart_to_purchase, 3, 10)
                /\ Equals(metrics.conv_view_to_purchase, 6, 10)

\* the aggregator has been applied to the example of the specification
C6_Witness ==
    /\ pc = "dispatching" /\ df = AovExample /\ hour = Ts(22)
    /\ metrics.events_total = 18 /\ metrics.unique_users = 13

\* the aggregator has been applied to an hour none of the events fall in
C6_WitnessZero ==
    pc = "dispatching" /\ df # <<>> /\ Matching = {} /\ AllZero(metrics)

\* C7: a load() that runs while a save(h) is in progress returns the complete
\* previous cursor or the complete new one, never an empty or partial file.
C7_AtomicSave ==
    [][(Load /\ pc \in {"committing", "writing"} /\ CursorBefore.tag # "JSONDecodeError")
            => observed' \in {CursorBefore, hour}]_vars

\* C8: save(h) followed by load() gives h back, for every hour the job
\* commits; load() on a missing state.json gives None and raises nothing.
C8_RoundTrip ==
    /\ pc = "done" => Cursor = Ts(committed[Len(committed)])
    /\ stateFile = Absent => Cursor = None
    /\ (before = Absent /\ pc = "failed") => failure # "JSONDecodeError"

\* an hour of the following day has been saved and is loaded back
C8_Witness ==
    /\ pc = "done"
    /\ committed[Len(committed)] >= 24
    /\ observed = Ts(committed[Len(committed)])

\* the start of the calendar hour a timestamp lies in
HourStart(ts) == [h |-> ts.h, m |-> 0]
\* the batch holds a row the normalizer is to keep
HasKeptRow == \E i \in DOMAIN raw : Kept(raw[i])
\* the normalizer has ended, on a batch with a row to keep
Normalized == normPc # "start" /\ HasKeptRow

\* C9: the normalizer turns the kept rows into NormalizedEvents whose
\* event_hour is the timestamp truncated to the start of its hour, so two
\* events share an event_hour exactly when their timestamps lie in the same
\* calendar hour.
C9_EventHour ==
    Normalized =>
        /\ normOut.ok
        /\ \A i \in DOMAIN raw : Kept(raw[i]) =>
                \E k \in DOMAIN normOut.events : normOut.events[k].index = i
        /\ \A k \in DOMAIN normOut.events :
                normOut.events[k].event_hour = HourStart(normOut.events[k].Timestamp)
        /\ \A k, l \in DOMAIN normOut.events :
                (normOut.events[k].event_hour = normOut.events[l].event_hour)
                    <=> (normOut.events[k].Timestamp.h = normOut.events[l].Timestamp.h)

\* C10: in every NormalizedEvent the normalizer produces, is_purchase is true
\* iff the trimmed, lower-cased event type is "purchase", and revenue is
\* non-negative, the record's amount for a purchase and 0 otherwise, an
\* absent or unparseable amount counting as 0.
C10_PurchaseRevenue ==
    Normalized =>
        /\ normOut.ok
        /\ \A i \in DOMAIN raw : Kept(raw[i]) =>
                \E k \in DOMAIN normOut.events : normOut.events[k].index = i
        /\ \A k \in DOMAIN normOut.events :
                LET e == normOut.events[k]
                    r == raw[e.index]
                IN /\ e.is_purchase <=> (lower(strip(r.EventType)) = PURCHASE)
                   /\ e.revenue >= 0
                   /\ e.revenue = IF e.is_purchase /\ r.Amount.isnum
                                  THEN r.Amount.v ELSE 0

====
